---- MODULE Spec2Model ----
(***************************************************************************)
(* Model of the zap -> Loki batching pusher (src/zaploki.go) together with *)
(* its zap sink (src/unnamed/part_001).                                    *)
(*                                                                         *)
(* One background goroutine (lokiPusher.run) owns the select loop.  Caller *)
(* goroutines run Hook, sink.Write, sink.Sync, sink.Close and Stop.  Every *)
(* blocking point of the code (channel send, HTTP round trip, WaitGroup    *)
(* wait) separates two actions of the model.                               *)
(*                                                                         *)
(* Spec          a pusher built with a positive size and wait; the ticker  *)
(*               may deliver a tick at any moment                          *)
(* ObservedSpec  Spec, with the state at the call of Stop kept as history  *)
(* FairSpec      Spec, with run scheduled and the ticker ticking           *)
(* AnyConfigSpec New and the start of run for any size and wait            *)
(* TimedSpec     a clock, the ticker's period and the duration of run's    *)
(*               HTTP round trips; producers call Hook                     *)
(***************************************************************************)
EXTENDS Integers, Sequences, FiniteSets, TLC

\* ------------------------------------------------------------------ bounds
MaxBatchMaxSize == 2     \* largest Config.BatchMaxSize explored
MaxCalls == 2            \* Hook / sink.Write calls made by the producers
MaxSyncs == 1            \* sink.Sync calls made by the host logger
MaxWait == 2             \* largest Config.BatchMaxWait explored, in time units
MaxTime == 4             \* last instant of the clock in the timed behaviours
MaxLatency == 2          \* longest HTTP round trip in the timed behaviours
MaxTimedCalls == 3       \* Hook calls made in the timed behaviours

\* ------------------------------------------------- program constants
NanosPerSecond == 1000000000

\* ------------------------------------------------------------ JSON intake
\* Byte strings are sequences of one-character strings.
Quote == "\""
Digits == {"1", "2"}
DigitVal(c) == IF c = "1" THEN 1 ELSE 2

WriteInputs ==
  { <<"{", Quote, "t", "s", Quote, ":", "2", "}">>,
    <<"{", Quote, "t", "s", Quote, ":", Quote, "a", Quote, "}">>,
    <<"{", Quote, "t", "s", Quote, ":", "2">> }

HookTimes == {1}

NoScan == [ok |-> FALSE, next |-> 0, kind |-> "none", str |-> <<>>, num |-> 0]

SetMin(S) == CHOOSE x \in S : \A y \in S : x <= y

\* a JSON string starting at p[i]: the bytes up to the next quote
ScanString(p, i) ==
  LET closing == {j \in (i + 1)..Len(p) : p[j] = Quote}
  IN IF i <= Len(p) /\ p[i] = Quote /\ closing # {}
     THEN [ok |-> TRUE, next |-> SetMin(closing) + 1, kind |-> "string",
           str |-> SubSeq(p, i + 1, SetMin(closing) - 1), num |-> 0]
     ELSE NoScan

RECURSIVE NumberValue(_, _, _)
NumberValue(p, i, j) ==
  IF j < i THEN 0 ELSE 10 * NumberValue(p, i, j - 1) + DigitVal(p[j])

\* a JSON number starting at p[i]: the longest run of digits
ScanNumber(p, i) ==
  LET stops == {j \in i..(Len(p) + 1) : j = Len(p) + 1 \/ p[j] \notin Digits}
      end == SetMin(stops)
  IN IF i <= Len(p) /\ end > i
     THEN [ok |-> TRUE, next |-> end, kind |-> "number", str |-> <<>>,
           num |-> NumberValue(p, i, end - 1)]
     ELSE NoScan

ScanNull(p, i) ==
  IF i + 3 <= Len(p) /\ SubSeq(p, i, i + 3) = <<"n", "u", "l", "l">>
  THEN [ok |-> TRUE, next |-> i + 4, kind |-> "null", str |-> <<>>, num |-> 0]
  ELSE NoScan

\* a scalar member value
ScanScalar(p, i) ==
  IF i > Len(p) THEN NoScan
  ELSE IF p[i] = Quote THEN ScanString(p, i)
  ELSE IF p[i] \in Digits THEN ScanNumber(p, i)
  ELSE ScanNull(p, i)

NoMembers == [ok |-> FALSE, next |-> 0, members |-> <<>>]

\* the members of an object after its opening brace or after a comma:
\* key ":" value, then "," and more members, or the closing brace
RECURSIVE ScanMembers(_, _, _)
ScanMembers(p, i, acc) ==
  LET k == ScanString(p, i)
      v == ScanScalar(p, k.next + 1)
      m == [key |-> k.str, kind |-> v.kind, num |-> v.num]
  IN IF ~k.ok \/ k.next > Len(p) \/ p[k.next] # ":" THEN NoMembers
     ELSE IF ~v.ok \/ v.next > Len(p) THEN NoMembers
     ELSE IF p[v.next] = "}"
          THEN [ok |-> TRUE, next |-> v.next + 1, members |-> Append(acc, m)]
     ELSE IF p[v.next] = ","
          THEN ScanMembers(p, v.next + 1, Append(acc, m))
     ELSE NoMembers

ScanObject(p) ==
  IF Len(p) >= 2 /\ p[1] = "{" /\ p[2] = "}"
  THEN [ok |-> TRUE, next |-> 3, members |-> <<>>]
  ELSE IF Len(p) >= 1 /\ p[1] = "{" THEN ScanMembers(p, 2, <<>>)
  ELSE NoMembers

\* the struct tags of logEntry and the JSON kind each field accepts
StringFields == { <<"l", "e", "v", "e", "l">>, <<"m", "s", "g">>,
                  <<"c", "a", "l", "l", "e", "r">> }
NumberFields == { <<"t", "s">> }

MemberFits(m) ==
  \/ m.kind = "null"
  \/ m.key \in StringFields /\ m.kind = "string"
  \/ m.key \in NumberFields /\ m.kind = "number"
  \/ m.key \notin (StringFields \cup NumberFields)

\* the whole document is one JSON value (json.Unmarshal's checkValid)
ValidJSON(p) ==
  \/ LET o == ScanObject(p) IN o.ok /\ o.next = Len(p) + 1
  \/ LET s == ScanScalar(p, 1) IN s.ok /\ s.next = Len(p) + 1

\* the last "ts" member that is a number sets Timestamp
RECURSIVE TimestampOf(_, _)
TimestampOf(members, n) ==
  IF n = 0 THEN 0
  ELSE IF members[n].key \in NumberFields /\ members[n].kind = "number"
       THEN members[n].num
       ELSE TimestampOf(members, n - 1)

\* json.Unmarshal(p, &entry): err is "syntax", "type" or "nil"
Unmarshal(p) ==
  LET o == ScanObject(p)
  IN IF ~ValidJSON(p) THEN [err |-> "syntax", Timestamp |-> 0]
     ELSE IF p = <<"n", "u", "l", "l">> THEN [err |-> "nil", Timestamp |-> 0]
     ELSE IF ~o.ok THEN [err |-> "type", Timestamp |-> 0]
     ELSE IF \E n \in 1..Len(o.members) : ~MemberFits(o.members[n])
          THEN [err |-> "type",
                Timestamp |-> TimestampOf(o.members, Len(o.members))]
     ELSE [err |-> "nil", Timestamp |-> TimestampOf(o.members, Len(o.members))]


\* ------------------------------------------------------------------ state
VARIABLES
  config,        \* lokiPusher.config: [BatchMaxSize, BatchMaxWait, Labels]
  ctxDone,       \* lp.ctx is cancelled (by the parent or by Stop's cancel)
  quit,          \* lp.quit is closed
  backing,       \* the array behind lp.logsBatch, as far as it was written
  logsBatchLen,  \* len(lp.logsBatch)
  pc,            \* where run is: new and start (before the loop), select,
                 \* send_size, send_timer, send_exit, done
  calls,         \* the Hook / Write calls made so far, in call order
  received,      \* history: ids of the entries run took from lp.entry, in order
  posts,         \* history: the HTTP requests issued by send, in order
  slog,          \* number of "failed to send logs" records written by run
  stops,         \* the Stop / Close calls made so far
  panicked,      \* the process died from an unrecovered panic
  syncT,         \* the goroutine inside sink.Sync
  syncs,         \* number of Sync calls that have returned
  exitSnap,      \* history: what run saw when it left its loop
  stopSnap,      \* history (ObservedSpec): the state when lp.quit was closed
  now,           \* the clock (TimedSpec), in time units
  tickerC        \* number of ticks buffered in ticker.C (capacity 1)

vars == <<config, ctxDone, quit, backing, logsBatchLen, pc, calls,
          received, posts, slog, stops, panicked, syncT, syncs, exitSnap,
          stopSnap, now, tickerC>>

\* the clock and the ticker; only the timed behaviours move them
timeVars == <<now, tickerC>>

\* lp.logsBatch as a slice: the first len elements of its array
logsBatch == SubSeq(backing, 1, logsBatchLen)

\* how a request ends for send: status 204 (nil), or anything else, be it
\* another status or a transport error (an error, which the caller logs)
SendOutcomes == {"204", "non204"}

SyncIdle == [pc |-> "idle", n |-> 0, buf |-> <<>>]
NoSnap ==
  [via |-> "none", pending |-> <<>>, nposts |-> 0, nrecv |-> 0, ncalls |-> 0]

\* the requests issued by one goroutine, in order
RECURSIVE PostsBy(_, _)
PostsBy(by, n) ==
  IF n = 0 THEN <<>>
  ELSE IF posts[n].by = by THEN Append(PostsBy(by, n - 1), posts[n])
       ELSE PostsBy(by, n - 1)

RunPosts == PostsBy("run", Len(posts))

InFlight == {i \in 1..Len(posts) : posts[i].resp = "inflight"}

\* the entries run holds that it has not yet passed to send
Unsent == IF pc = "select" THEN logsBatch ELSE <<>>

\* the calls blocked in "lp.entry <- entry"
Blocked == {i \in 1..Len(calls) : calls[i].st = "blocked"}

\* the label maps given to New
LabelSets == { [app |-> "test", env |-> "dev"], [job |-> "zap"] }

\* what every state after New has in common, whatever the configuration
InitFields ==
  /\ ctxDone = FALSE
  /\ quit = FALSE
  /\ backing = <<>>
  /\ logsBatchLen = 0
  /\ calls = <<>>
  /\ received = <<>>
  /\ posts = <<>>
  /\ slog = 0
  /\ stops = <<>>
  /\ panicked = FALSE
  /\ syncT = SyncIdle
  /\ syncs = 0
  /\ exitSnap = NoSnap
  /\ stopSnap = NoSnap
  /\ now = 0
  /\ tickerC = 0

\* after New with a positive size and wait, run waiting in its select
Init ==
  /\ config \in [BatchMaxSize : 1..MaxBatchMaxSize, BatchMaxWait : {1},
                 Labels : LabelSets]
  /\ pc = "select"
  /\ InitFields

\* ------------------------------------------------------------- producers
\* (variant: the producer is handed the error of a failed flush)
HandOffResultCoupled(c) ==
  IF \E k \in 1..Len(posts) : posts[k].resp = "non204" THEN "error" ELSE "nil"

\* what a producer gets back once its channel send has completed
HandOffResult(c) == "nil"

\* (variant: a Hook call made after run has exited returns an error)
HookFailFast(t) ==
  /\ ~panicked
  /\ calls' = Append(calls, [kind |-> "Hook", p |-> <<>>, Timestamp |-> t,
                            raw |-> <<>>,
                            st |-> IF pc = "done" THEN "returned"
                                   ELSE "blocked",
                            n |-> 0,
                            err |-> IF pc = "done" THEN "stopped" ELSE "nil",
                            at |-> now, recvAt |-> -1])
  /\ UNCHANGED <<config, ctxDone, quit, backing, logsBatchLen, pc, received,
                 posts, slog, stops, panicked, syncT, syncs, exitSnap,
                 stopSnap>>

\* Hook: builds the entry (raw is left unset) and blocks in the channel send
Hook(t) ==
  /\ ~panicked
  /\ calls' = Append(calls, [kind |-> "Hook", p |-> <<>>, Timestamp |-> t,
                            raw |-> <<>>, st |-> "blocked", n |-> 0,
                            err |-> "nil", at |-> now, recvAt |-> -1])
  /\ UNCHANGED <<config, ctxDone, quit, backing, logsBatchLen, pc, received,
                 posts, slog, stops, panicked, syncT, syncs, exitSnap,
                 stopSnap>>

\* (variant: the parse error is ignored and the entry is handed off)
WriteUnchecked(p) ==
  /\ ~panicked
  /\ calls' = Append(calls, [kind |-> "Write", p |-> p,
                            Timestamp |-> Unmarshal(p).Timestamp, raw |-> p,
                            st |-> "blocked", n |-> 0, err |-> "nil",
                            at |-> now, recvAt |-> -1])
  /\ UNCHANGED <<config, ctxDone, quit, backing, logsBatchLen, pc, received,
                 posts, slog, stops, panicked, syncT, syncs, exitSnap,
                 stopSnap>>

\* sink.Write: a parse error returns (0, err) at once; otherwise the entry
\* keeps the bytes as raw and the call blocks in the channel send
Write(p) ==
  /\ ~panicked
  /\ LET u == Unmarshal(p)
     IN calls' = Append(calls,
          IF u.err # "nil"
          THEN [kind |-> "Write", p |-> p, Timestamp |-> 0, raw |-> <<>>,
                st |-> "returned", n |-> 0, err |-> u.err, at |-> now,
                recvAt |-> -1]
          ELSE [kind |-> "Write", p |-> p, Timestamp |-> u.Timestamp,
                raw |-> p, st |-> "blocked", n |-> 0, err |-> "nil",
                at |-> now, recvAt |-> -1])
  /\ UNCHANGED <<config, ctxDone, quit, backing, logsBatchLen, pc, received,
                 posts, slog, stops, panicked, syncT, syncs, exitSnap,
                 stopSnap>>

\* ------------------------------------------------------------------- run
DigitChar(d) ==
  CASE d = 0 -> "0" [] d = 1 -> "1" [] d = 2 -> "2" [] d = 3 -> "3"
    [] d = 4 -> "4" [] d = 5 -> "5" [] d = 6 -> "6" [] d = 7 -> "7"
    [] d = 8 -> "8" [] d = 9 -> "9"

\* strconv.FormatInt(n, 10) for n >= 0, as a sequence of characters
RECURSIVE FormatInt(_)
FormatInt(n) ==
  IF n < 10 THEN << DigitChar(n) >>
  ELSE Append(FormatInt(n \div 10), DigitChar(n % 10))

\* the streamValue of a batch element as it is encoded: two strings
WireValue(v) == << FormatInt(v.ts), v.raw >>

\* newLog: the entry's timestamp taken as seconds, in nanoseconds, and raw
newLog(entry) ==
  [ts |-> entry.Timestamp * NanosPerSecond, raw |-> entry.raw, id |-> entry.id]

\* append(lp.logsBatch, v): writes the slot after the last element
AppendSlot(arr, len, v) ==
  IF len < Len(arr) THEN [arr EXCEPT ![len + 1] = v]
  ELSE Append(SubSeq(arr, 1, len), v)

\* (variant: the size test is strict)
BatchOverfull(len) == len > config.BatchMaxSize

\* the size test after an append
BatchFull(len) == len >= config.BatchMaxSize

\* (variant: a single pending entry is not worth a request)
BatchPendingSeveral(len) == len > 1

\* the test that guards the timer flush and the deferred flush
BatchPending(len) == len > 0

\* (variant: the entry's severity becomes a label of the stream)
PushRequestLevelled(values) ==
  [Streams |-> << [Stream |-> [level |-> "info"], Values |-> values] >>]

\* the lokiPushRequest that send encodes
PushRequest(values) ==
  [Streams |-> << [Stream |-> config.Labels, Values |-> values] >>]

\* send, up to the point where the request is on the wire
IssuePost(by, cause, values) ==
  Append(posts, [by |-> by, cause |-> cause, values |-> values,
                 body |-> PushRequest(values), at |-> now,
                 resp |-> "inflight"])

\* the deferred function of run: one send if the batch is not empty, then
\* waitGroup.Done; the batch is not reset here
RunExit(via) ==
  /\ exitSnap' = [via |-> via, pending |-> logsBatch,
                  nposts |-> Len(RunPosts), nrecv |-> Len(received),
                  ncalls |-> Len(calls)]
  /\ IF BatchPending(logsBatchLen)
     THEN /\ posts' = IssuePost("run", "exit", logsBatch)
          /\ pc' = "send_exit"
     ELSE /\ posts' = posts
          /\ pc' = "done"
  /\ UNCHANGED <<config, ctxDone, quit, backing, logsBatchLen, calls,
                 received, slog, stops, panicked, syncT, syncs, stopSnap>>

\* (variants: the branch leaves without running the deferred flush)
RunLeave(via) ==
  /\ exitSnap' = [via |-> via, pending |-> logsBatch,
                  nposts |-> Len(RunPosts), nrecv |-> Len(received),
                  ncalls |-> Len(calls)]
  /\ pc' = "done"
  /\ UNCHANGED <<config, ctxDone, quit, backing, logsBatchLen, calls,
                 received, posts, slog, stops, panicked, syncT, syncs,
                 stopSnap>>

RunCtxDoneAbrupt ==
  /\ ~panicked
  /\ pc = "select"
  /\ ctxDone
  /\ RunLeave("ctx")

RunQuitAbrupt ==
  /\ ~panicked
  /\ pc = "select"
  /\ quit
  /\ RunLeave("quit")

\* case <-lp.ctx.Done(): return
RunCtxDone ==
  /\ ~panicked
  /\ pc = "select"
  /\ ctxDone
  /\ RunExit("ctx")

\* case <-lp.quit: return
RunQuit ==
  /\ ~panicked
  /\ pc = "select"
  /\ quit
  /\ RunExit("quit")

\* case entry := <-lp.entry: the longest-blocked sender is served, its call
\* returns, the entry is appended, and a full batch is sent
RunReceive ==
  /\ ~panicked
  /\ pc = "select"
  /\ Blocked # {}
  /\ LET i == SetMin(Blocked)
         c == calls[i]
         v == newLog([Timestamp |-> c.Timestamp, raw |-> c.raw, id |-> i])
     IN /\ calls' = [calls EXCEPT ![i] =
                       [c EXCEPT !.st = "returned",
                                 !.n = IF c.kind = "Write" THEN Len(c.p) ELSE 0,
                                 !.err = HandOffResult(c),
                                 !.recvAt = now]]
        /\ received' = Append(received, i)
        /\ backing' = AppendSlot(backing, logsBatchLen, v)
        /\ logsBatchLen' = logsBatchLen + 1
        /\ IF BatchFull(logsBatchLen + 1)
           THEN /\ posts' = IssuePost("run", "size",
                               SubSeq(AppendSlot(backing, logsBatchLen, v), 1,
                                      logsBatchLen + 1))
                /\ pc' = "send_size"
           ELSE /\ posts' = posts
                /\ pc' = "select"
  /\ UNCHANGED <<config, ctxDone, quit, slog, stops, panicked, syncT, syncs,
                 exitSnap, stopSnap>>

\* case <-ticker.C: the ticker has delivered a tick (it does so again and
\* again until run exits); a non-empty batch is sent
RunTick ==
  /\ ~panicked
  /\ pc = "select"
  /\ IF BatchPending(logsBatchLen)
     THEN /\ posts' = IssuePost("run", "timer", logsBatch)
          /\ pc' = "send_timer"
     ELSE /\ posts' = posts
          /\ pc' = "select"
  /\ UNCHANGED <<config, ctxDone, quit, backing, logsBatchLen, calls,
                 received, slog, stops, panicked, syncT, syncs, exitSnap,
                 stopSnap>>

\* the request of run that is on the wire
RunInFlight == CHOOSE i \in InFlight : posts[i].by = "run"

\* (variant: the batch is not reset after the send)
AfterLoopSendKept(len) == len

\* what is left of the batch after a send made inside the loop
AfterLoopSend(len) == 0

\* send returns inside the loop: an error is logged, the batch is reset
SendReturn ==
  /\ ~panicked
  /\ pc \in {"send_size", "send_timer"}
  /\ \E r \in SendOutcomes :
       /\ posts' = [posts EXCEPT ![RunInFlight].resp = r]
       /\ slog' = IF r = "204" THEN slog ELSE slog + 1
  /\ logsBatchLen' = AfterLoopSend(logsBatchLen)
  /\ pc' = "select"
  /\ UNCHANGED <<config, ctxDone, quit, backing, calls, received, stops,
                 panicked, syncT, syncs, exitSnap, stopSnap>>

\* send returns inside the deferred function: an error is logged, then
\* waitGroup.Done and ticker.Stop
SendExitReturn ==
  /\ ~panicked
  /\ pc = "send_exit"
  /\ \E r \in SendOutcomes :
       /\ posts' = [posts EXCEPT ![RunInFlight].resp = r]
       /\ slog' = IF r = "204" THEN slog ELSE slog + 1
  /\ pc' = "done"
  /\ UNCHANGED <<config, ctxDone, quit, backing, logsBatchLen, calls,
                 received, stops, panicked, syncT, syncs, exitSnap,
                 stopSnap>>

\* ------------------------------------------------------- stop and cancel
\* (variant: a stop request after the first is a no-op that returns)
CloseQuitGuarded ==
  /\ ~panicked
  /\ quit' = TRUE
  /\ stops' = Append(stops, IF quit THEN "returned" ELSE "waiting")
  /\ Len(stops) < 3
  /\ UNCHANGED <<config, ctxDone, backing, logsBatchLen, pc, calls, received,
                 posts, slog, panicked, syncT, syncs, exitSnap>>

\* close(lp.quit), which panics on a closed channel, then waitGroup.Wait
CloseQuit ==
  /\ ~panicked
  /\ IF quit
     THEN /\ panicked' = TRUE
          /\ stops' = Append(stops, "panicked")
          /\ UNCHANGED quit
     ELSE /\ quit' = TRUE
          /\ stops' = Append(stops, "waiting")
          /\ UNCHANGED panicked
  /\ UNCHANGED <<config, ctxDone, backing, logsBatchLen, pc, calls, received,
                 posts, slog, syncT, syncs, exitSnap>>

\* Stop
Stop ==
  /\ CloseQuit
  /\ UNCHANGED stopSnap

\* Stop, and the history of what the state was at the call
StopObserved ==
  /\ CloseQuit
  /\ stopSnap' = IF quit THEN stopSnap
                 ELSE [NoSnap EXCEPT !.via = "quit", !.pending = Unsent,
                                     !.nposts = Len(RunPosts),
                                     !.nrecv = Len(received)]

\* sink.Close: calls Stop and returns nil
Close == Stop

CloseObserved == StopObserved

\* waitGroup.Wait returns once run has called Done; then lp.cancel()
StopReturn ==
  /\ ~panicked
  /\ pc = "done"
  /\ \E i \in 1..Len(stops) :
       /\ stops[i] = "waiting"
       /\ stops' = [stops EXCEPT ![i] = "returned"]
  /\ ctxDone' = TRUE
  /\ UNCHANGED <<config, quit, backing, logsBatchLen, pc, calls, received,
                 posts, slog, panicked, syncT, syncs, exitSnap, stopSnap>>

\* the context given to New is cancelled by its owner
CancelParent ==
  /\ ~panicked
  /\ ~ctxDone
  /\ ctxDone' = TRUE
  /\ UNCHANGED <<config, quit, backing, logsBatchLen, pc, calls, received,
                 posts, slog, stops, panicked, syncT, syncs, exitSnap,
                 stopSnap>>


\* ------------------------------------------------------------- sink.Sync
\* Sync runs on the caller's goroutine and takes no lock: each read of
\* lp.logsBatch sees whatever run has written by then.

\* the test "len(s.lokiPusher.logsBatch) > 0"
SyncPending(len) == len > 0

\* Sync reads the length; an empty batch returns nil
SyncBegin ==
  /\ ~panicked
  /\ syncT.pc = "idle"
  /\ syncs < MaxSyncs
  /\ IF SyncPending(logsBatchLen)
     THEN /\ syncT' = [syncT EXCEPT !.pc = "checked"]
          /\ syncs' = syncs
     ELSE /\ syncT' = SyncIdle
          /\ syncs' = syncs + 1
  /\ UNCHANGED <<config, ctxDone, quit, backing, logsBatchLen, pc, calls,
                 received, posts, slog, stops, panicked, exitSnap, stopSnap>>

\* send reads the slice header again for "Values: lp.logsBatch"
SyncHeader ==
  /\ ~panicked
  /\ syncT.pc = "checked"
  /\ syncT' = [pc |-> "encoding", n |-> logsBatchLen, buf |-> <<>>]
  /\ UNCHANGED <<config, ctxDone, quit, backing, logsBatchLen, pc, calls,
                 received, posts, slog, stops, panicked, syncs, exitSnap,
                 stopSnap>>

\* the encoder reads the next element of the array
SyncEncode ==
  /\ ~panicked
  /\ syncT.pc = "encoding"
  /\ Len(syncT.buf) < syncT.n
  /\ syncT' = [syncT EXCEPT !.buf = Append(@, backing[Len(@) + 1])]
  /\ UNCHANGED <<config, ctxDone, quit, backing, logsBatchLen, pc, calls,
                 received, posts, slog, stops, panicked, syncs, exitSnap,
                 stopSnap>>

\* the encoded request goes on the wire
SyncPost ==
  /\ ~panicked
  /\ syncT.pc = "encoding"
  /\ Len(syncT.buf) = syncT.n
  /\ posts' = IssuePost("Sync", "sync", syncT.buf)
  /\ syncT' = [syncT EXCEPT !.pc = "posting"]
  /\ UNCHANGED <<config, ctxDone, quit, backing, logsBatchLen, pc, calls,
                 received, slog, stops, panicked, syncs, exitSnap, stopSnap>>

SyncInFlight == CHOOSE i \in InFlight : posts[i].by = "Sync"

\* send returns to Sync, which returns send's error (nil after a 204) to
\* its caller; the batch is left as it is
SyncReturn ==
  /\ ~panicked
  /\ syncT.pc = "posting"
  /\ \E r \in SendOutcomes :
       /\ posts' = [posts EXCEPT ![SyncInFlight].resp = r]
       /\ syncs' = syncs + 1
  /\ syncT' = SyncIdle
  /\ UNCHANGED <<config, ctxDone, quit, backing, logsBatchLen, pc, calls,
                 received, slog, stops, panicked, exitSnap, stopSnap>>

\* ---------------------------------------------------------- specification
\* an untimed step: the clock and the ticker stay as they are
Next ==
  \/ \E t \in HookTimes :
       Len(calls) < MaxCalls /\ Hook(t) /\ UNCHANGED timeVars
  \/ \E p \in WriteInputs :
       Len(calls) < MaxCalls /\ Write(p) /\ UNCHANGED timeVars
  \/ RunCtxDone /\ UNCHANGED timeVars
  \/ RunQuit /\ UNCHANGED timeVars
  \/ RunReceive /\ UNCHANGED timeVars
  \/ RunTick /\ UNCHANGED timeVars
  \/ SendReturn /\ UNCHANGED timeVars
  \/ SendExitReturn /\ UNCHANGED timeVars
  \/ Stop /\ UNCHANGED timeVars
  \/ Close /\ UNCHANGED timeVars
  \/ StopReturn /\ UNCHANGED timeVars
  \/ CancelParent /\ UNCHANGED timeVars
  \/ SyncBegin /\ UNCHANGED timeVars
  \/ SyncHeader /\ UNCHANGED timeVars
  \/ SyncEncode /\ UNCHANGED timeVars
  \/ SyncPost /\ UNCHANGED timeVars
  \/ SyncReturn /\ UNCHANGED timeVars

Spec == Init /\ [][Next]_vars

\* the same program, with the state at the call of Stop kept as history
NextObserved ==
  \/ \E t \in HookTimes :
       Len(calls) < MaxCalls /\ Hook(t) /\ UNCHANGED timeVars
  \/ \E p \in WriteInputs :
       Len(calls) < MaxCalls /\ Write(p) /\ UNCHANGED timeVars
  \/ RunCtxDone /\ UNCHANGED timeVars
  \/ RunQuit /\ UNCHANGED timeVars
  \/ RunReceive /\ UNCHANGED timeVars
  \/ RunTick /\ UNCHANGED timeVars
  \/ SendReturn /\ UNCHANGED timeVars
  \/ SendExitReturn /\ UNCHANGED timeVars
  \/ StopObserved /\ UNCHANGED timeVars
  \/ CloseObserved /\ UNCHANGED timeVars
  \/ StopReturn /\ UNCHANGED timeVars
  \/ CancelParent /\ UNCHANGED timeVars
  \/ SyncBegin /\ UNCHANGED timeVars
  \/ SyncHeader /\ UNCHANGED timeVars
  \/ SyncEncode /\ UNCHANGED timeVars
  \/ SyncPost /\ UNCHANGED timeVars
  \/ SyncReturn /\ UNCHANGED timeVars

ObservedSpec == Init /\ [][NextObserved]_vars

\* ------------------------------------------------- any configuration
\* New and the start of run, for sizes and waits that need not be positive.

\* New: make([]streamValue, 0, cfg.BatchMaxSize) panics on a negative
\* capacity; otherwise the pusher exists and run is started
New ==
  /\ ~panicked
  /\ pc = "new"
  /\ IF config.BatchMaxSize < 0
     THEN panicked' = TRUE /\ pc' = pc
     ELSE panicked' = FALSE /\ pc' = "start"
  /\ UNCHANGED <<config, ctxDone, quit, backing, logsBatchLen, calls,
                 received, posts, slog, stops, syncT, syncs, exitSnap,
                 stopSnap>>

\* run begins: time.NewTicker panics unless the wait is positive
RunStart ==
  /\ ~panicked
  /\ pc = "start"
  /\ IF config.BatchMaxWait <= 0
     THEN panicked' = TRUE /\ pc' = pc
     ELSE panicked' = FALSE /\ pc' = "select"
  /\ UNCHANGED <<config, ctxDone, quit, backing, logsBatchLen, calls,
                 received, posts, slog, stops, syncT, syncs, exitSnap,
                 stopSnap>>

InitAnyConfig ==
  /\ config \in [BatchMaxSize : -1..MaxBatchMaxSize, BatchMaxWait : 0..1,
                 Labels : {[job |-> "zap"]}]
  /\ pc = "new"
  /\ InitFields

\* the pusher can be used once New has returned it
NextAnyConfig ==
  \/ New /\ UNCHANGED timeVars
  \/ RunStart /\ UNCHANGED timeVars
  \/ \E t \in HookTimes :
       pc # "new" /\ Len(calls) < MaxCalls /\ Hook(t) /\ UNCHANGED timeVars
  \/ \E p \in WriteInputs :
       pc # "new" /\ Len(calls) < MaxCalls /\ Write(p) /\ UNCHANGED timeVars
  \/ RunCtxDone /\ UNCHANGED timeVars
  \/ RunQuit /\ UNCHANGED timeVars
  \/ RunReceive /\ UNCHANGED timeVars
  \/ RunTick /\ UNCHANGED timeVars
  \/ SendReturn /\ UNCHANGED timeVars
  \/ SendExitReturn /\ UNCHANGED timeVars
  \/ pc # "new" /\ Stop /\ UNCHANGED timeVars
  \/ pc # "new" /\ Close /\ UNCHANGED timeVars
  \/ StopReturn /\ UNCHANGED timeVars
  \/ pc # "new" /\ CancelParent /\ UNCHANGED timeVars
  \/ pc # "new" /\ SyncBegin /\ UNCHANGED timeVars
  \/ SyncHeader /\ UNCHANGED timeVars
  \/ SyncEncode /\ UNCHANGED timeVars
  \/ SyncPost /\ UNCHANGED timeVars
  \/ SyncReturn /\ UNCHANGED timeVars

AnyConfigSpec == InitAnyConfig /\ [][NextAnyConfig]_vars

\* --------------------------------------------------------- timed behaviours
\* The clock counts time units.  run takes its steps at once when one is
\* ready, an HTTP round trip of run lasts up to MaxLatency units, and the
\* ticker created at instant 0 delivers a tick every BatchMaxWait units.

\* (variant: the ticker is armed with twice the configured wait)
TickDueLate(t) == t % (2 * config.BatchMaxWait) = 0

\* time.NewTicker(lp.config.BatchMaxWait): the instants at which it ticks
TickDue(t) == t % config.BatchMaxWait = 0

\* run has a step it takes without letting time pass
RunReady ==
  \/ pc = "select" /\ (tickerC = 1 \/ Blocked # {} \/ quit \/ ctxDone)
  \/ /\ pc \in {"send_size", "send_timer", "send_exit"}
     /\ now - posts[RunInFlight].at >= MaxLatency

\* one time unit passes; a due tick goes into ticker.C unless one is still
\* buffered there, and a stopped ticker delivers nothing
Advance ==
  /\ ~panicked
  /\ now < MaxTime
  /\ ~RunReady
  /\ now' = now + 1
  /\ tickerC' = IF pc # "done" /\ TickDue(now + 1) THEN 1 ELSE tickerC
  /\ UNCHANGED <<config, ctxDone, quit, backing, logsBatchLen, pc, calls,
                 received, posts, slog, stops, panicked, syncT, syncs,
                 exitSnap, stopSnap>>

\* case <-ticker.C, taking the buffered tick
RunTickTimed ==
  /\ tickerC = 1
  /\ RunTick
  /\ tickerC' = 0
  /\ now' = now

InitTimed ==
  /\ config \in [BatchMaxSize : 1..MaxBatchMaxSize, BatchMaxWait : 1..MaxWait,
                 Labels : {[job |-> "zap"]}]
  /\ pc = "select"
  /\ InitFields

NextTimed ==
  \/ \E t \in HookTimes :
       Len(calls) < MaxTimedCalls /\ Hook(t) /\ UNCHANGED timeVars
  \/ RunCtxDone /\ UNCHANGED timeVars
  \/ RunQuit /\ UNCHANGED timeVars
  \/ RunReceive /\ UNCHANGED timeVars
  \/ RunTickTimed
  \/ SendReturn /\ UNCHANGED timeVars
  \/ SendExitReturn /\ UNCHANGED timeVars
  \/ Stop /\ UNCHANGED timeVars
  \/ Close /\ UNCHANGED timeVars
  \/ StopReturn /\ UNCHANGED timeVars
  \/ CancelParent /\ UNCHANGED timeVars
  \/ Advance

TimedSpec == InitTimed /\ [][NextTimed]_vars

\* run is scheduled whenever it can take a step, the ticker keeps firing and
\* every HTTP round trip returns
RunStep ==
  /\ \/ RunCtxDone
     \/ RunQuit
     \/ RunReceive
     \/ RunTick
     \/ SendReturn
     \/ SendExitReturn
  /\ UNCHANGED timeVars

FairSpec ==
  Spec /\ WF_vars(RunStep) /\ WF_vars(RunTick /\ UNCHANGED timeVars)


\* ----------------------------------------------------------------- claims
\* input classes of sink.Write, classified by hand
MalformedInputs ==
  { <<"{", Quote, "t", "s", Quote, ":", Quote, "a", Quote, "}">>,
    <<"{", Quote, "t", "s", Quote, ":", "2">> }

RECURSIVE Flatten(_)
Flatten(ps) ==
  IF ps = <<>> THEN <<>>
  ELSE Flatten(SubSeq(ps, 1, Len(ps) - 1)) \o ps[Len(ps)].values

\* the values run builds from the entries it received, in receive order
ReceivedValues ==
  [k \in 1..Len(received) |->
     [ts |-> calls[received[k]].Timestamp * NanosPerSecond,
      raw |-> calls[received[k]].raw, id |-> received[k]]]

\* position of entry i in the receive order
RecvIndex(i) == CHOOSE k \in 1..Len(received) : received[k] = i

PostIds(k) == {posts[k].values[j].id : j \in 1..Len(posts[k].values)}

Posted(i) == \E k \in 1..Len(posts) : posts[k].by = "run" /\ i \in PostIds(k)

WasReceived(i) == \E k \in 1..Len(received) : received[k] = i

FailedRunPosts ==
  {k \in 1..Len(posts) : posts[k].by = "run" /\ posts[k].resp = "non204"}

\* the requests run issued after the point a snapshot was taken
RunPostsSince(snap) == SubSeq(RunPosts, snap.nposts + 1, Len(RunPosts))

StopReturned == \E i \in 1..Len(stops) : stops[i] = "returned"

\* C1: FIFO.  The batches run has passed to send, followed by the entries it
\* still holds, are the received entries in receive order; inside every
\* transmitted batch entries appear in receive order, and no batch is
\* transmitted after a batch holding a later entry.
C1_FIFO ==
  /\ Flatten(RunPosts) \o Unsent = ReceivedValues
  /\ \A k \in 1..Len(posts) : \A a, b \in 1..Len(posts[k].values) :
       a < b => RecvIndex(posts[k].values[a].id)
                  < RecvIndex(posts[k].values[b].id)
  /\ \A k, m \in 1..Len(posts) : \A x \in PostIds(k), y \in PostIds(m) :
       k < m => RecvIndex(x) <= RecvIndex(y)

\* C2: while run waits in its select the pending batch holds fewer than
\* BatchMaxSize entries, and no request carries more than BatchMaxSize.
C2_BatchBound ==
  /\ pc = "select" => logsBatchLen < config.BatchMaxSize
  /\ \A k \in 1..Len(posts) : Len(posts[k].values) <= config.BatchMaxSize

C2_Witness ==
  /\ pc = "select"
  /\ config.BatchMaxSize >= 2
  /\ \E k \in 1..Len(posts) :
       posts[k].cause = "size" /\ Len(posts[k].values) = config.BatchMaxSize

\* C3: every entry run has taken from the channel is eventually part of a
\* batch that run passes to send, unless the process dies first: again and
\* again all entries received so far have been passed to send (being
\* received and being passed to send both last forever once true).
C3_EventualDelivery ==
  []<>(\A i \in 1..Len(received) : Posted(received[i]) \/ panicked)

C3_Witness ==
  \E k \in 1..Len(posts) :
    /\ posts[k].by = "run"
    /\ posts[k].cause = "timer"
    /\ posts[k].resp # "inflight"
    /\ \E i \in PostIds(k) : WasReceived(i)

\* C4 as stated: counted from the call of Stop, run flushes exactly once
\* more, carrying what was pending at the call, or not at all if nothing was.
C4_Original ==
  (pc = "done" /\ stopSnap.via = "quit") =>
     IF stopSnap.pending # <<>>
     THEN /\ Len(RunPostsSince(stopSnap)) = 1
          /\ RunPostsSince(stopSnap)[1].values = stopSnap.pending
     ELSE RunPostsSince(stopSnap) = <<>>

\* C4 amended: counted from the moment run takes the stop branch, run
\* flushes exactly once more, carrying exactly the entries pending then, or
\* not at all if none were; it receives nothing more; every failed flush of
\* run is logged once and nothing is sent again.
C4_StopFlush ==
  (exitSnap.via = "quit") =>
     /\ pc \in {"send_exit", "done"}
     /\ Len(received) = exitSnap.nrecv
     /\ IF exitSnap.pending # <<>>
        THEN /\ Len(RunPostsSince(exitSnap)) = 1
             /\ RunPostsSince(exitSnap)[1].values = exitSnap.pending
             /\ RunPostsSince(exitSnap)[1].cause = "exit"
        ELSE RunPostsSince(exitSnap) = <<>>
     /\ slog = Cardinality(FailedRunPosts)

C4_Witness ==
  /\ exitSnap.via = "quit"
  /\ pc = "done"
  /\ Len(exitSnap.pending) >= 1
  /\ RunPosts[Len(RunPosts)].resp = "non204"
  /\ stopSnap.pending # exitSnap.pending

C6_StopJoin ==
  /\ [](StopReturned => (pc = "done" /\ InFlight = {}))
  /\ [][StopReturned => posts' = posts]_vars

\* C7: at most one request is in flight, every request is issued by run, and
\* no Sync call is at work on the batch while run is alive.
C7_SingleOwner ==
  /\ Cardinality(InFlight) <= 1
  /\ \A k \in 1..Len(posts) : posts[k].by = "run"
  /\ pc # "done" => syncT.pc = "idle"

\* C8: no entry is part of two requests, and after the last flush attempt
\* the pending batch is empty.
C8_AtMostOnce ==
  /\ \A k, m \in 1..Len(posts) : k # m => PostIds(k) \cap PostIds(m) = {}
  /\ \A k \in 1..Len(posts) :
       Cardinality(PostIds(k)) = Len(posts[k].values)
  /\ (pc = "done" /\ InFlight = {}) => logsBatchLen = 0

\* C9: a returned Hook call returned nil, and a returned Write call returned
\* an error exactly if its input was malformed, whatever the flushes did.
C9_ProducersDecoupled ==
  \A i \in 1..Len(calls) :
    calls[i].st = "returned" =>
      /\ calls[i].kind = "Hook" => calls[i].err = "nil"
      /\ calls[i].kind = "Write" =>
           (calls[i].err # "nil" <=> calls[i].p \in MalformedInputs)

C9_Witness ==
  \E k \in FailedRunPosts : \E m \in (k + 1)..Len(posts) : \E i \in PostIds(m) :
    /\ i \notin PostIds(k)
    /\ calls[i].kind = "Write"
    /\ calls[i].st = "returned"
    /\ calls[i].err = "nil"

BlockedIn(cs) == {i \in 1..Len(cs) : cs[i].st = "blocked"}

C10_Step ==
  (Len(calls') = Len(calls) + 1 /\ calls'[Len(calls')].kind = "Write") =>
     LET c == calls'[Len(calls')]
     IN IF c.p \in MalformedInputs
        THEN /\ c.st = "returned" /\ c.n = 0 /\ c.err # "nil"
             /\ BlockedIn(calls') = BlockedIn(calls)
             /\ UNCHANGED <<backing, logsBatchLen, received, posts>>
        ELSE /\ c.st = "blocked"
             /\ BlockedIn(calls') = BlockedIn(calls) \cup {Len(calls')}

C10_Returned ==
  \A i \in 1..Len(calls) :
    (calls[i].kind = "Write" /\ calls[i].st = "returned") =>
       IF calls[i].p \in MalformedInputs
       THEN /\ calls[i].n = 0 /\ calls[i].err # "nil"
            /\ ~WasReceived(i)
            /\ \A k \in 1..Len(backing) : backing[k].id # i
       ELSE /\ calls[i].n = Len(calls[i].p) /\ calls[i].err = "nil"
            /\ Cardinality({k \in 1..Len(received) : received[k] = i}) = 1

\* C10: a Write of malformed input returns (0, error) at once and changes
\* neither the batch, nor the channel, nor the requests; a Write of valid
\* input hands off exactly one entry and returns (len(p), nil).
C10_WriteRejects == []C10_Returned /\ [][C10_Step]_vars

C10_Witness ==
  \E i, j \in 1..Len(calls) :
    /\ calls[i].kind = "Write" /\ calls[i].p \in MalformedInputs
    /\ calls[i].st = "returned"
    /\ calls[j].kind = "Write" /\ calls[j].p \notin MalformedInputs
    /\ calls[j].st = "returned" /\ j > i

\* the instant run took the entry of a transmitted or pending value
AcceptedAt(v) == calls[v.id].recvAt

\* C11: run flushes on size exactly when an append makes the batch reach
\* BatchMaxSize: entries are received in call order and leave in that order,
\* a waiting run holds fewer than BatchMaxSize, a size flush carries exactly
\* BatchMaxSize entries and any other flush of run fewer; so BatchMaxSize
\* entries with no timer flush make one flush holding all of them, and with
\* BatchMaxSize = 2 three entries whose first flush is on size give [e1,e2]
\* and then e3 alone, pending until the timer or the exit flushes it.
C11_SizeFlush ==
  /\ \A k \in 2..Len(received) : received[k - 1] < received[k]
  /\ Flatten(RunPosts) \o Unsent = ReceivedValues
  /\ pc = "select" => Len(Unsent) < config.BatchMaxSize
  /\ \A k \in 1..Len(RunPosts) :
       IF RunPosts[k].cause = "size"
       THEN Len(RunPosts[k].values) = config.BatchMaxSize
       ELSE Len(RunPosts[k].values) \in 1..(config.BatchMaxSize - 1)
  /\ ( /\ Len(received) = config.BatchMaxSize
       /\ \A k \in 1..Len(RunPosts) : RunPosts[k].cause = "size" )
     => RunPosts = << RunPosts[1] >> /\ RunPosts[1].values = ReceivedValues
  /\ ( /\ config.BatchMaxSize = 2
       /\ Len(received) = 3
       /\ RunPosts # <<>>
       /\ RunPosts[1].cause = "size" )
     => /\ RunPosts[1].values = SubSeq(ReceivedValues, 1, 2)
        /\ IF Len(RunPosts) = 1
           THEN pc = "select" /\ Unsent = SubSeq(ReceivedValues, 3, 3)
           ELSE /\ Len(RunPosts) = 2
                /\ RunPosts[2].cause \in {"timer", "exit"}
                /\ RunPosts[2].values = SubSeq(ReceivedValues, 3, 3)

C11_Witness ==
  /\ config.BatchMaxSize = 2
  /\ Len(received) = 3
  /\ Len(RunPosts) = 2
  /\ RunPosts[1].cause = "size"
  /\ RunPosts[2].cause = "timer"
  /\ RunPosts[2].resp = "204"

\* consecutive entries were submitted more than BatchMaxWait apart
SparseSubmitted ==
  \A i \in 2..Len(calls) : calls[i].at - calls[i - 1].at > config.BatchMaxWait

\* consecutive entries were taken by run more than BatchMaxWait apart
SparseAccepted ==
  \A k \in 2..Len(received) :
    calls[received[k]].recvAt - calls[received[k - 1]].recvAt
      > config.BatchMaxWait

\* every flush of run is a timer flush of one entry, issued at most
\* BatchMaxWait after run took the entry, and a pending entry is alone and
\* not older than BatchMaxWait
TimerFlushesEachAlone ==
  /\ \A k \in 1..Len(RunPosts) :
       /\ RunPosts[k].cause = "timer"
       /\ Len(RunPosts[k].values) = 1
       /\ RunPosts[k].at - AcceptedAt(RunPosts[k].values[1])
            <= config.BatchMaxWait
  /\ Len(Unsent) <= 1
  /\ \A j \in 1..Len(Unsent) : now - AcceptedAt(Unsent[j]) <= config.BatchMaxWait
  /\ Flatten(RunPosts) \o Unsent = ReceivedValues

\* C13 as stated: with BatchMaxSize > 1 and entries submitted more than
\* BatchMaxWait apart, until a stop or a cancellation every entry is flushed
\* alone by the timer, at most BatchMaxWait after it was accepted.
C13_Original ==
  (config.BatchMaxSize > 1 /\ SparseSubmitted /\ ~quit /\ ~ctxDone)
    => TimerFlushesEachAlone

\* C13 amended: the same, for entries that run accepts (takes from the
\* hand-off) more than BatchMaxWait apart.
C13_SparseFlush ==
  (config.BatchMaxSize > 1 /\ SparseAccepted /\ ~quit /\ ~ctxDone)
    => TimerFlushesEachAlone

C13_Witness ==
  /\ config.BatchMaxSize > 1
  /\ SparseAccepted
  /\ ~quit /\ ~ctxDone
  /\ Len(received) >= 2
  /\ Len(RunPosts) = 2
  /\ \E i \in 1..Len(calls) : calls[i].recvAt > calls[i].at

\* C14: a timer flush that follows a size flush of run comes at least
\* BatchMaxWait after it.
C14_TimerReset ==
  \A k \in 2..Len(RunPosts) :
    (RunPosts[k - 1].cause = "size" /\ RunPosts[k].cause = "timer")
      => RunPosts[k].at - RunPosts[k - 1].at >= config.BatchMaxWait

\* every request carries one stream, labelled with the configured labels
C12_Envelope ==
  \A k \in 1..Len(posts) :
    /\ Len(posts[k].body.Streams) = 1
    /\ posts[k].body.Streams[1].Stream = config.Labels
    /\ posts[k].body.Streams[1].Values = posts[k].values

\* C12: every request of any flush carries exactly one stream whose labels
\* are Config.Labels as given to New (no operation changes the configured
\* labels), whatever was submitted and whatever happened before.
C12_FixedEnvelope == []C12_Envelope /\ [][config'.Labels = config.Labels]_vars

C12_Witness ==
  /\ config.Labels = [app |-> "test", env |-> "dev"]
  /\ \E k, m \in 1..Len(posts) :
       /\ posts[k].by = "run" /\ posts[m].by = "Sync"
       /\ \E j \in 1..Len(posts[k].values) :
            calls[posts[k].values[j].id].kind = "Write"
       /\ \E j \in 1..Len(posts[m].values) :
            calls[posts[m].values[j].id].kind = "Hook"

\* C15: a tick on an empty batch issues nothing and changes nothing, and no
\* request of any flush path carries an empty values list.
C15_NoEmptyFlush ==
  /\ [](\A k \in 1..Len(posts) : posts[k].values # <<>>)
  /\ [][(pc = "select" /\ logsBatchLen = 0 /\ RunTick)
         => UNCHANGED <<posts, backing, logsBatchLen, pc, received>>]_vars

\* C17: the first string of every transmitted pair of a Hook entry is the
\* decimal form of its millisecond timestamp times 1,000,000.
C17_TimestampKept ==
  \A k \in 1..Len(posts) : \A j \in 1..Len(posts[k].values) :
    LET v == posts[k].values[j]
    IN calls[v.id].kind = "Hook" =>
         WireValue(v)[1] = FormatInt(calls[v.id].Timestamp * 1000000)

\* C18: the second string of every transmitted pair is the input of the
\* Write call that submitted the entry, or the serialized text of the Hook
\* entry, and is never empty.
C18_PayloadIsRecord ==
  \A k \in 1..Len(posts) : \A j \in 1..Len(posts[k].values) :
    LET v == posts[k].values[j]
    IN /\ WireValue(v)[2] # <<>>
       /\ calls[v.id].kind = "Write" => WireValue(v)[2] = calls[v.id].p

\* the calls that have an entry to hand off
HandsOff(c) == c.kind = "Hook" \/ c.p \notin MalformedInputs

C19_Handed ==
  \A i \in 1..Len(calls) :
    (HandsOff(calls[i]) /\ calls[i].st = "returned") =>
       /\ WasReceived(i)
       /\ exitSnap.via # "none" => i <= exitSnap.ncalls

C19_Step ==
  (exitSnap.via # "none") =>
     /\ received' = received
     /\ BlockedIn(calls) \subseteq BlockedIn(calls')
     /\ \A i \in 1..Len(calls') :
          (i > Len(calls) /\ HandsOff(calls'[i])) => calls'[i].st = "blocked"

\* C19: a Hook call or a Write call with valid input returns only after run
\* took its entry; once run has left its loop it takes no entry, so every
\* producer blocked then stays blocked and every such call made later
\* blocks and does not return.
C19_BlocksAfterExit == []C19_Handed /\ [][C19_Step]_vars

C19_Witness ==
  /\ pc = "done"
  /\ StopReturned
  /\ \E i, j \in Blocked :
       /\ i <= exitSnap.ncalls /\ j > exitSnap.ncalls
       /\ calls[i].kind = "Write" /\ calls[j].kind = "Hook"

C20_Step ==
  (Len(stops') = Len(stops) + 1) =>
     IF quit
     THEN panicked' /\ stops'[Len(stops')] = "panicked"
     ELSE ~panicked' /\ quit' /\ stops'[Len(stops')] = "waiting"

C20_Stops ==
  /\ \A i \in 1..Len(stops) : (i = 1) <=> (stops[i] # "panicked")
  /\ panicked <=> (\E i \in 1..Len(stops) : stops[i] = "panicked")
  /\ (stops = << "waiting" >> /\ pc = "done") => ENABLED StopReturn

\* C20: the first stop request closes quit and, once run is done, returns
\* (also when run left on a cancellation); every later stop request, be it
\* Stop or Close, sequential or concurrent, panics on the closed channel.
C20_StopOnce == []C20_Stops /\ [][C20_Step]_vars

C20_Witness ==
  /\ exitSnap.via = "ctx"
  /\ stops = << "returned", "panicked" >>
  /\ panicked

\* C16: with BatchMaxSize <= 0 run never flushes on size, with
\* BatchMaxWait <= 0 it never flushes on the timer, and in both cases the
\* pusher is built and run reaches its loop (nothing panics before a stop).
C16_PolicyDisabled ==
  /\ config.BatchMaxSize <= 0 =>
       \A k \in 1..Len(posts) : posts[k].cause # "size"
  /\ config.BatchMaxWait <= 0 =>
       \A k \in 1..Len(posts) : posts[k].cause # "timer"
  /\ panicked => stops # <<>>

====
